---- MODULE Spec2Model ----
(***************************************************************************)
(* Model of transaction_security.py: main() walks the transaction list,    *)
(* assesses each transaction with analyze_transaction_risk, auto-approves  *)
(* low/medium verdicts and hands the others to an AgentWorkflow whose only *)
(* tool is confirm_transaction.  The LLM that drives the workflow is an    *)
(* external collaborator: whether it calls the tool, with which reviewer   *)
(* name, and what its final text says are nondeterministic choices.        *)
(***************************************************************************)
EXTENDS Integers, Sequences, FiniteSets, TLC

VARIABLES
    given,          \* the transaction list as get_mock_transactions() returned it
    transactions,   \* the list of transaction dicts main() iterates over
    idx,            \* 1-based position of the for loop of main()
    pc,             \* where main() stands: loop / stream / done / crashed
    now,            \* the wall clock read by datetime.now()
    handlerTx,      \* transaction under review, or just reviewed (0: none)
    agent,          \* state of the workflow run: idle / running / in_tool / done
    toolArgs,       \* arguments of the confirm_transaction call in progress
    toolCalls,      \* confirm_transaction calls made by the current run
    toolResult,     \* string returned by the last confirm_transaction call
    stream,         \* events written to the handler's stream, not yet consumed
    ctxQueue,       \* per handler context: HumanResponseEvents sent, not yet taken
    response,       \* final text of the workflow run of the transaction under review
    promptsSent,    \* per transaction: number of InputRequiredEvents emitted
    prompted,       \* user_name of each InputRequiredEvent of the current run
    responses,      \* raw answers the current run's tool has received
    lastTaken,      \* the last HumanResponseEvent a wait_for_event returned
    report          \* the summary lines printed after the loop

vars == <<given, transactions, idx, pc, now, handlerTx, agent, toolArgs, toolCalls,
          toolResult, stream, ctxQueue, response, promptsSent, prompted,
          responses, lastTaken, report>>

-----------------------------------------------------------------------------
(* Bounds *)

MaxTx == 2
MaxToolCalls == 1

-----------------------------------------------------------------------------
(* Python values *)

None == <<>>
Some(v) == <<v>>

reviewer_name == "Security Analyst Smith"
AutoApprover == "Auto-approval System"

\* reviewer names the LLM may pass to confirm_transaction
Reviewers == {reviewer_name, "Analyst Jones"}

MockFactors == <<"Unusual destination country", "First-time recipient">>

AmountText == "25000.0"
CurrencyText == "USD"

\* what a reviewer may type at input()
RawResponses == {" YES\n", "investigate", "no", ""}

-----------------------------------------------------------------------------
(* str methods *)

UpperChars == "ABCDEFGHIJKLMNOPQRSTUVWXYZ"
LowerChars == "abcdefghijklmnopqrstuvwxyz"
Whitespace == {" ", "\t", "\n", "\r", "\f"}

CharAt(s, i) == SubSeq(s, i, i)

LowerChar(c) ==
    IF \E i \in 1..Len(UpperChars) : CharAt(UpperChars, i) = c
    THEN CharAt(LowerChars, CHOOSE i \in 1..Len(UpperChars) : CharAt(UpperChars, i) = c)
    ELSE c

lower(s) ==
    LET low[i \in 0..Len(s)] ==
            IF i = 0 THEN "" ELSE low[i - 1] \o LowerChar(CharAt(s, i))
    IN low[Len(s)]

RECURSIVE lstrip(_)
lstrip(s) ==
    IF Len(s) > 0 /\ CharAt(s, 1) \in Whitespace
    THEN lstrip(SubSeq(s, 2, Len(s)))
    ELSE s

RECURSIVE rstrip(_)
rstrip(s) ==
    IF Len(s) > 0 /\ CharAt(s, Len(s)) \in Whitespace
    THEN rstrip(SubSeq(s, 1, Len(s) - 1))
    ELSE s

strip(s) == rstrip(lstrip(s))

\* Python's `sub in s`
Contains(sub, s) ==
    \E i \in 1..(Len(s) - Len(sub) + 1) : SubSeq(s, i, i + Len(sub) - 1) = sub

-----------------------------------------------------------------------------
(* Mock data *)

TxId(i) == CASE i = 1 -> "TRX-001"
             [] i = 2 -> "TRX-002"
             [] i = 3 -> "TRX-003"
             [] OTHER -> "TRX-004"

RiskLevels == {"low", "medium", "high", "critical"}

\* a value that is not a member of the RiskLevel enum
BadLevel == "extreme"

\* a transaction dict; the key risk_level may be missing altogether
TxWithLevel(i, lv, fs) ==
    [transaction_id |-> TxId(i), risk_level |-> lv, risk_factors |-> fs,
     approved |-> FALSE, approved_by |-> None, approval_date |-> None]

TxWithoutLevel(i, fs) ==
    [transaction_id |-> TxId(i), risk_factors |-> fs,
     approved |-> FALSE, approved_by |-> None, approval_date |-> None]

TxChoices(i) ==
    {TxWithLevel(i, Some("low"), <<>>), TxWithLevel(i, None, <<>>),
     TxWithLevel(i, Some("medium"), MockFactors),
     TxWithLevel(i, Some("high"), MockFactors),
     TxWithLevel(i, Some("critical"), MockFactors),
     TxWithLevel(i, Some(BadLevel), <<>>),
     TxWithoutLevel(i, <<>>)}

TxLists ==
    UNION {{f \in [1..n -> UNION {TxChoices(i) : i \in 1..n}] :
               \A i \in 1..n : f[i] \in TxChoices(i)} : n \in 1..MaxTx}

\* the list get_mock_transactions() returns
MockTransactions ==
    <<TxWithLevel(1, Some("low"), <<>>), TxWithLevel(2, Some("high"), MockFactors)>>

-----------------------------------------------------------------------------
(* analyze_transaction_risk *)

\* transaction['risk_level'] raises KeyError when the key is missing
AnalysisRaises(transaction) == "risk_level" \notin DOMAIN transaction

\* an evaluator that also reports critical as high
analyze_high_or_critical(transaction) ==
    IF transaction.risk_level \in {Some("high"), Some("critical")}
    THEN [risk_level |-> "high", risk_factors |-> transaction.risk_factors]
    ELSE [risk_level |-> "low", risk_factors |-> <<>>]

analyze_transaction_risk(transaction) ==
    IF transaction.risk_level = Some("high")
    THEN [risk_level |-> "high", risk_factors |-> transaction.risk_factors]
    ELSE [risk_level |-> "low", risk_factors |-> <<>>]

-----------------------------------------------------------------------------
(* confirm_transaction *)

InputRequiredEvent(session, user_name) ==
    [type |-> "InputRequiredEvent", session |-> session, user_name |-> user_name]

HumanResponseEvent(session, raw, user_name) ==
    [type |-> "HumanResponseEvent", session |-> session, response |-> raw,
     user_name |-> user_name]

OtherEvent(kind, session) ==
    [type |-> kind, session |-> session, user_name |-> ""]

\* requirements={"user_name": reviewer_name}
MeetsRequirements(event, args) == event.user_name = args.reviewer_name

Normalize(raw) == lower(strip(raw))

ConfirmResult(transaction_id, amount, currency, reviewer, raw) ==
    LET user_response == Normalize(raw) IN
    IF user_response = "yes"
    THEN "Transaction " \o transaction_id \o " for " \o amount \o " " \o currency
            \o " has been approved by " \o reviewer \o "."
    ELSE IF user_response = "investigate"
    THEN "Transaction " \o transaction_id \o " has been marked for further investigation."
    ELSE "Transaction " \o transaction_id \o " has been rejected by " \o reviewer \o "."

-----------------------------------------------------------------------------
(* The LLM of the AgentWorkflow *)

\* final texts the LLM may produce on its own
FreeTexts == {"The transaction was NOT APPROVED.",
              "The transaction has been rejected."}

\* the LLM may also relay the result of its last tool call
FinalTexts(result) == FreeTexts \cup {result[i] : i \in 1..Len(result)}

-----------------------------------------------------------------------------
(* main *)

\* a threshold list that lost its first entry
NeedsNoReviewMediumOnly(level) == level \in {"medium"}

NeedsNoReview(level) == level \in {"low", "medium"}

\* the test without .lower()
IsApprovedTextCaseSensitive(text) == Contains("approved", text)

IsApprovedText(text) == \E lowered \in {lower(text)} : Contains("approved", lowered)

\* the answer goes to the context of the previous handler
SendTargetStale(handler) == IF handler > 1 THEN handler - 1 ELSE handler

\* the context main() sends the reviewer's answer to: handler.ctx
SendTarget(handler) == handler

\* the user_name main() puts on the HumanResponseEvent: event.user_name
ReplyUserName(event) == event.user_name

\* the loop stays on the same transaction
NextIndexSame(i) == i

\* the for loop moves on to the next transaction
NextIndex(i) == i + 1

\* an approval that leaves the date out
ApproveNoDate(transaction, approver, date) ==
    [transaction EXCEPT !.approved = TRUE,
                        !.approved_by = Some(approver)]

\* the three disposition fields as both approval sites write them
Approve(transaction, approver, date) ==
    [transaction EXCEPT !.approved = TRUE,
                        !.approved_by = Some(approver),
                        !.approval_date = Some(date)]

\* stream_events() is exhausted: the run has completed and every event was seen
StreamEnded == agent = "done" /\ stream = <<>>

\* str(response)
ResponseText == IF response = None THEN "None" ELSE response[1]

\* the event is read but left in the queue
PeekEvent(queue) == queue

\* wait_for_event removes the event it returns from the context's queue
TakeEvent(queue) == Tail(queue)

ReportStatus(transaction) == IF transaction.approved THEN "APPROVED" ELSE "REJECTED"

Init ==
    /\ transactions \in TxLists
    /\ given = transactions
    /\ idx = 1
    /\ pc = "loop"
    /\ now = 1
    /\ handlerTx = 0
    /\ agent = "idle"
    /\ toolArgs = None
    /\ toolCalls = 0
    /\ toolResult = None
    /\ stream = <<>>
    /\ ctxQueue = [h \in 1..Len(transactions) |-> <<>>]
    /\ response = None
    /\ promptsSent = [i \in 1..Len(transactions) |-> 0]
    /\ prompted = <<>>
    /\ responses = <<>>
    /\ lastTaken = None
    /\ report = None

\* One pass of the for loop up to its first suspension: analyze the risk,
\* record it, then either auto-approve and continue or start the workflow.
ProcessTransaction ==
    /\ pc = "loop"
    /\ idx <= Len(transactions)
    /\ LET transaction == transactions[idx] IN
       IF AnalysisRaises(transaction)
       THEN /\ pc' = "crashed"
            /\ UNCHANGED <<given, prompted, transactions, idx, now, handlerTx, agent, toolArgs,
                           toolCalls, toolResult, stream, ctxQueue, response,
                           promptsSent, responses, lastTaken, report>>
       ELSE LET risk_analysis == analyze_transaction_risk(transaction)
                assessed == [transaction EXCEPT
                                !.risk_level = Some(risk_analysis.risk_level),
                                !.risk_factors = risk_analysis.risk_factors]
            IN
            IF NeedsNoReview(risk_analysis.risk_level)
            THEN /\ transactions' = [transactions EXCEPT ![idx] =
                        Approve(assessed, AutoApprover, now)]
                 /\ now' = now + 1
                 /\ idx' = NextIndex(idx)
                 /\ handlerTx' = 0
                 /\ toolCalls' = 0
                 /\ toolResult' = None
                 /\ responses' = <<>>
                 /\ lastTaken' = None
                 /\ response' = None
                 /\ prompted' = <<>>
                 /\ UNCHANGED <<given, pc, agent, toolArgs, stream, ctxQueue,
                                promptsSent, report>>
            ELSE /\ transactions' = [transactions EXCEPT ![idx] = assessed]
                 /\ pc' = "stream"
                 /\ handlerTx' = idx
                 /\ agent' = "running"
                 /\ toolArgs' = None
                 /\ toolCalls' = 0
                 /\ toolResult' = None
                 /\ stream' = <<>>
                 /\ responses' = <<>>
                 /\ lastTaken' = None
                 /\ response' = None
                 /\ prompted' = <<>>
                 /\ UNCHANGED <<given, idx, now, ctxQueue, promptsSent, report>>

\* The LLM decides to call confirm_transaction: the tool writes its
\* InputRequiredEvent to the stream and starts waiting for the answer.
AgentCallTool ==
    /\ agent = "running"
    /\ toolCalls < MaxToolCalls
    /\ \E reviewer \in Reviewers :
        /\ toolArgs' = Some([ctx |-> handlerTx,
                             transaction_id |-> transactions[handlerTx].transaction_id,
                             reviewer_name |-> reviewer])
        /\ stream' = Append(stream, InputRequiredEvent(handlerTx, reviewer))
        /\ prompted' = Append(prompted, reviewer)
    /\ promptsSent' = [promptsSent EXCEPT ![handlerTx] = @ + 1]
    /\ agent' = "in_tool"
    /\ toolCalls' = toolCalls + 1
    /\ UNCHANGED <<given, transactions, idx, pc, now, handlerTx, toolResult, ctxQueue,
                   response, responses, lastTaken, report>>

\* stream_events() yields an event that is not an InputRequiredEvent
StreamOtherEvent ==
    /\ pc = "stream"
    /\ stream # <<>>
    /\ Head(stream).type # "InputRequiredEvent"
    /\ stream' = Tail(stream)
    /\ UNCHANGED <<given, prompted, transactions, idx, pc, now, handlerTx, agent, toolArgs,
                   toolCalls, toolResult, ctxQueue, response, promptsSent,
                   responses, lastTaken, report>>

\* stream_events() yields an InputRequiredEvent: main() prints the prompt,
\* reads the reviewer's answer with input() and sends it to the handler.
StreamInputRequired ==
    /\ pc = "stream"
    /\ stream # <<>>
    /\ Head(stream).type = "InputRequiredEvent"
    /\ \E raw \in RawResponses :
        LET event == Head(stream)
            target == SendTarget(handlerTx)
        IN ctxQueue' = [ctxQueue EXCEPT ![target] =
                Append(@, HumanResponseEvent(event.session, raw, ReplyUserName(event)))]
    /\ stream' = Tail(stream)
    /\ UNCHANGED <<given, prompted, transactions, idx, pc, now, handlerTx, agent, toolArgs,
                   toolCalls, toolResult, response, promptsSent, responses,
                   lastTaken, report>>

\* wait_for_event takes the next HumanResponseEvent of the tool's context;
\* one that misses the requirements is dropped and the tool keeps waiting,
\* a matching one makes confirm_transaction return its result.
ToolResume ==
    /\ agent = "in_tool"
    /\ LET args == toolArgs[1]
           queue == ctxQueue[args.ctx]
       IN
       /\ queue # <<>>
       /\ ctxQueue' = [ctxQueue EXCEPT ![args.ctx] = TakeEvent(queue)]
       /\ IF MeetsRequirements(Head(queue), args)
          THEN /\ toolResult' = Some(ConfirmResult(args.transaction_id, AmountText,
                                        CurrencyText, args.reviewer_name,
                                        Head(queue).response))
               /\ responses' = Append(responses, Head(queue).response)
               /\ lastTaken' = Some([event |-> Head(queue), by |-> args])
               /\ agent' = "running"
               /\ toolArgs' = None
          ELSE UNCHANGED <<toolResult, responses, lastTaken, agent, toolArgs>>
    /\ UNCHANGED <<given, prompted, transactions, idx, pc, now, handlerTx, toolCalls, response,
                   stream, promptsSent, report>>

\* The LLM produces its final answer and the workflow run completes.
AgentFinish ==
    /\ agent = "running"
    /\ \E text \in FinalTexts(toolResult) : response' = Some(text)
    /\ agent' = "done"
    /\ stream' = Append(stream, OtherEvent("AgentOutput", handlerTx))
    /\ UNCHANGED <<given, prompted, transactions, idx, pc, now, handlerTx, toolArgs, toolCalls,
                   toolResult, ctxQueue, promptsSent, responses, lastTaken, report>>

\* The stream has ended: `response = await handler`, then the approval update.
MainFinish ==
    /\ pc = "stream"
    /\ StreamEnded
    /\ IF IsApprovedText(ResponseText)
       THEN /\ transactions' = [transactions EXCEPT ![idx] =
                    Approve(@, reviewer_name, now)]
            /\ now' = now + 1
       ELSE UNCHANGED <<transactions, now>>
    /\ idx' = NextIndex(idx)
    /\ pc' = "loop"
    /\ agent' = "idle"
    /\ UNCHANGED <<given, prompted, handlerTx, toolArgs, toolCalls, toolResult, stream, ctxQueue,
                   response, promptsSent, responses, lastTaken, report>>

\* After the loop: the transaction summary.
GenerateReport ==
    /\ pc = "loop"
    /\ idx > Len(transactions)
    /\ report' = Some([i \in 1..Len(transactions) |->
                        [transaction_id |-> transactions[i].transaction_id,
                         status |-> ReportStatus(transactions[i]),
                         approved_by |-> IF transactions[i].approved
                                         THEN transactions[i].approved_by ELSE None,
                         approval_date |-> IF transactions[i].approved
                                           THEN transactions[i].approval_date ELSE None]])
    /\ pc' = "done"
    /\ UNCHANGED <<given, prompted, transactions, idx, now, handlerTx, agent, toolArgs,
                   toolCalls, toolResult, stream, ctxQueue, response, promptsSent,
                   responses, lastTaken>>

Next ==
    \/ ProcessTransaction
    \/ AgentCallTool
    \/ StreamOtherEvent
    \/ StreamInputRequired
    \/ ToolResume
    \/ AgentFinish
    \/ MainFinish
    \/ GenerateReport

Spec == Init /\ [][Next]_vars

\* Every step but the reviewer typing an answer is the program's own and is
\* taken once possible; the event loop schedules ready tasks.
FairSpec ==
    /\ Spec
    /\ WF_vars(ProcessTransaction)
    /\ WF_vars(AgentCallTool \/ AgentFinish)
    /\ WF_vars(StreamOtherEvent)
    /\ WF_vars(ToolResume)
    /\ WF_vars(MainFinish)
    /\ WF_vars(GenerateReport)

\* FairSpec with a reviewer who answers every prompt that is shown
ResponsiveSpec ==
    /\ FairSpec
    /\ WF_vars(StreamInputRequired)

-----------------------------------------------------------------------------
(* Vocabulary of the properties *)

TxIndices == 1..Len(transactions)

\* the risk fields of transaction i hold the evaluator's verdict
Assessed(i) == i < idx \/ (i = idx /\ pc = "stream")

\* the loop has moved past transaction i
Terminal(i) == i < idx

Verdict(i) == transactions[i].risk_level[1]

NeedsReview(i) == Assessed(i) /\ Verdict(i) \in {"high", "critical"}

\* the workflow run for transaction handlerTx is over and main() has acted on it
ReviewEnded == handlerTx # 0 /\ Terminal(handlerTx)

Decisions == {Normalize(responses[k]) : k \in 1..Len(responses)}

\* the run asked the reviewer exactly once and got this decision
SingleDecision(d) == Len(responses) = 1 /\ Normalize(responses[1]) = d

-----------------------------------------------------------------------------
(* C1: a transaction with a high or critical verdict never ends approved
   unless a reviewer answer that normalizes to "yes" was received in the
   review of that same transaction. *)
C1_NoApprovalWithoutHumanYes ==
    \A i \in TxIndices :
        (NeedsReview(i) /\ i = handlerTx /\ transactions[i].approved)
            => "yes" \in Decisions

(* C2: every transaction with a low or medium verdict is approved by the
   auto-approval identity, is reported APPROVED, and no InputRequiredEvent
   is ever emitted for it. *)
C2_LowMediumAutoApproved ==
    \A i \in TxIndices :
        (Assessed(i) /\ Verdict(i) \in {"low", "medium"}) =>
            /\ transactions[i].approved
            /\ transactions[i].approved_by = Some(AutoApprover)
            /\ transactions[i].approval_date # None
            /\ promptsSent[i] = 0
            /\ \A k \in 1..Len(stream) : stream[k].session # i
            /\ report # None => report[1][i].status = "APPROVED"

\* a finished batch holding an auto-approved transaction next to one that
\* was prompted for
C2_Witness ==
    /\ pc = "done"
    /\ \E i, j \in TxIndices :
        /\ Verdict(i) = "low"
        /\ transactions[i].approved_by = Some(AutoApprover)
        /\ report[1][i].status = "APPROVED"
        /\ promptsSent[j] > 0

(* C3: for every transaction with a high or critical verdict exactly one
   prompt has been sent by the time its session is terminal. *)
C3_ExactlyOnePrompt ==
    \A i \in TxIndices :
        (NeedsReview(i) /\ Terminal(i)) => promptsSent[i] = 1

(* C4: a reviewer answer that normalizes to neither "yes" nor "investigate"
   leaves the transaction unapproved, with no approver, and reported
   REJECTED. *)
C4_OtherAnswerRejects ==
    (ReviewEnded /\ \E d \in Decisions \ {"yes", "investigate"} : SingleDecision(d)) =>
        /\ ~transactions[handlerTx].approved
        /\ transactions[handlerTx].approved_by = None
        /\ report # None => report[1][handlerTx].status = "REJECTED"

(* C5: a reviewer answer that is "yes" after trimming and lower-casing ends
   the session approved, the approver being the reviewer identity that
   answered. *)
C5_YesApprovesByResponder ==
    (ReviewEnded /\ SingleDecision("yes")) =>
        /\ transactions[handlerTx].approved
        /\ transactions[handlerTx].approved_by = Some(lastTaken[1].event.user_name)

(* C6: a reviewer answer "investigate" ends the session with a report status
   that is neither Approved nor Rejected, with no approver and no approval
   time. *)
C6_InvestigateIsDistinctStatus ==
    (pc = "done" /\ ReviewEnded /\ SingleDecision("investigate")) =>
        /\ report[1][handlerTx].status \notin {"APPROVED", "REJECTED"}
        /\ report[1][handlerTx].approved_by = None
        /\ report[1][handlerTx].approval_date = None

(* C7: when the risk evaluator fails for a transaction, its session is
   routed to human review and the transaction is not auto-approved. *)
C7_EvaluatorFailureRoutedToReview ==
    \A i \in TxIndices :
        (AnalysisRaises(transactions[i]) /\ i = idx /\ pc # "loop") =>
            /\ pc = "stream"
            /\ handlerTx = i
            /\ ~transactions[i].approved

(* C8: an evaluator failure in one session does not abort the batch: once
   main() has stopped, every other transaction is terminal and the report
   has been produced. *)
C8_FailureDoesNotAbortBatch ==
    (pc \in {"done", "crashed"} /\ \E i \in TxIndices : AnalysisRaises(transactions[i])) =>
        /\ report # None
        /\ \A j \in TxIndices : ~AnalysisRaises(transactions[j]) => Terminal(j)

(* C9: a prompt that gets no reviewer answer does not stay outstanding
   forever: the waiting confirm_transaction call is eventually released. *)
C9_PromptEventuallyReleased ==
    [](agent = "in_tool" => <>(agent # "in_tool"))

(* C10: a reviewer answer is only ever queued in the context of the session
   whose prompt it answers, carries that prompt's reviewer identity, and is
   taken only by a wait of the same (session, reviewer identity) pair. *)
C10_ResponseMatchesPromptPair ==
    /\ \A h \in TxIndices : \A k \in 1..Len(ctxQueue[h]) :
        /\ ctxQueue[h][k].session = h
        /\ h = handlerTx
        /\ ctxQueue[h][k].user_name = prompted[Len(prompted)]
    /\ lastTaken # None =>
        /\ lastTaken[1].event.session = lastTaken[1].by.ctx
        /\ lastTaken[1].event.user_name = lastTaken[1].by.reviewer_name
        /\ lastTaken[1].by.ctx = handlerTx

\* the second session took the answer to its own prompt after the first
\* session had prompted a reviewer too
C10_Witness ==
    /\ handlerTx = 2
    /\ lastTaken # None
    /\ lastTaken[1].event.session = 2
    /\ lastTaken[1].by.reviewer_name = reviewer_name
    /\ promptsSent[1] > 0

-----------------------------------------------------------------------------
(* C11: no reviewer answer outlives the wait it was sent for.  The context
   of a session that is not waiting in confirm_transaction, in particular of
   every terminal session, buffers no answer, so no answer reaches a
   terminal session or is applied to a later prompt; a buffered answer is
   the answer to the prompt being waited on, which main() has consumed. *)
C11_NoBufferedReplay ==
    /\ \A h \in TxIndices :
        /\ (h # handlerTx \/ agent # "in_tool") => ctxQueue[h] = <<>>
        /\ Len(ctxQueue[h]) <= 1
    /\ \A h \in TxIndices : Terminal(h) => ctxQueue[h] = <<>>
    /\ (agent = "in_tool" /\ ctxQueue[handlerTx] # <<>>) =>
            \A k \in 1..Len(stream) : stream[k].type # "InputRequiredEvent"

\* a prompt of a later session is waiting after an earlier session was
\* prompted and answered, and nothing of the earlier answer is left
C11_Witness ==
    /\ agent = "in_tool"
    /\ \E i \in TxIndices :
        /\ Terminal(i)
        /\ promptsSent[i] > 0
        /\ ctxQueue[i] = <<>>
    /\ ctxQueue[handlerTx] = <<>>
    /\ stream # <<>>

\* InputRequiredEvents of the stream that main() has not answered yet
Unanswered == Len(SelectSeq(stream, LAMBDA e : e.type = "InputRequiredEvent"))

(* C12: a prompt is emitted for a transaction only after its risk level and
   factors have been recorded as the evaluator returned them, and the
   session has never been handed more answers than it has emitted prompts:
   every answer accepted or queued follows its own prompt. *)
C12_AssessThenPromptThenAnswer ==
    /\ \A i \in TxIndices :
        promptsSent[i] > 0 =>
            /\ Assessed(i)
            /\ ~AnalysisRaises(given[i])
            /\ transactions[i].risk_level = Some(analyze_transaction_risk(given[i]).risk_level)
            /\ transactions[i].risk_factors = analyze_transaction_risk(given[i]).risk_factors
    /\ handlerTx # 0 =>
        /\ Len(prompted) = promptsSent[handlerTx]
        /\ Len(responses) + Len(ctxQueue[handlerTx]) + Unanswered = Len(prompted)
    /\ handlerTx = 0 => prompted = <<>> /\ responses = <<>>

\* the tool has accepted the answer to the one prompt of an assessed
\* high-risk transaction
C12_Witness ==
    /\ handlerTx # 0
    /\ pc = "stream"
    /\ agent = "running"
    /\ Len(responses) = 1
    /\ promptsSent[handlerTx] = 1
    /\ transactions[handlerTx].risk_level = Some("high")
    /\ transactions[handlerTx].risk_factors = MockFactors

\* session i has a prompt that is emitted and not resolved: the event waits
\* in the stream, the tool call waits for the answer, or the answer is queued
Outstanding(i) ==
    \/ \E k \in 1..Len(stream) :
        stream[k].type = "InputRequiredEvent" /\ stream[k].session = i
    \/ agent = "in_tool" /\ toolArgs[1].ctx = i
    \/ ctxQueue[i] # <<>>

(* C13: prompts are never outstanding for two sessions at once, whatever
   reviewer identity they name: the session with an outstanding prompt is
   the one under review, every session prompted before it is resolved, and
   at most one of its prompts is unanswered. *)
C13_OneSessionPromptsAtATime ==
    /\ \A i \in TxIndices :
        Outstanding(i) =>
            /\ i = idx /\ pc = "stream" /\ i = handlerTx
            /\ \A j \in TxIndices \ {i} :
                /\ ~Outstanding(j)
                /\ promptsSent[j] > 0 => Terminal(j)
    /\ Unanswered <= 1
    /\ \A k \in 1..Len(stream) :
        stream[k].type = "InputRequiredEvent" =>
            /\ agent = "in_tool"
            /\ stream[k].user_name = toolArgs[1].reviewer_name

\* the second session prompts the configured reviewer after the first
\* session prompted and was resolved
C13_Witness ==
    /\ Len(transactions) >= 2
    /\ agent = "in_tool"
    /\ Outstanding(2)
    /\ Unanswered = 1
    /\ toolArgs[1].reviewer_name = reviewer_name
    /\ promptsSent[1] > 0
    /\ Terminal(1)

(* C14: the wait of one session does not keep another from being
   prompted: while a confirm_transaction call waits for its answer and
   transactions are left, main() can go on to the next transaction. *)
C14_WaitDoesNotBlockOthers ==
    (agent = "in_tool" /\ idx < Len(transactions)) => ENABLED ProcessTransaction

\* The loop of main() serializes the sessions: while one is under review
\* every later transaction is untouched, a session with an outstanding prompt
\* is the one under review, and no two sessions have outstanding prompts.
SessionsAreSerialized ==
    /\ pc = "stream" =>
        /\ idx <= Len(transactions) /\ handlerTx = idx
        /\ \A j \in TxIndices : j > idx =>
            transactions[j] = given[j] /\ promptsSent[j] = 0
    /\ \A i \in TxIndices : Outstanding(i) => ~Terminal(i) /\ pc = "stream"
    /\ Cardinality({i \in TxIndices : Outstanding(i)}) <= 1

Disposition(transaction) ==
    <<transaction.approved, transaction.approved_by, transaction.approval_date>>

(* C15: a step changes the disposition fields of a transaction only if it
   is the step that makes its session terminal, and only from their unset
   values; no later step, of another transaction or of the report, changes
   them again. *)
C15_DispositionWrittenOnceAtEnd ==
    [][\A i \in TxIndices :
          Disposition(transactions'[i]) # Disposition(transactions[i]) =>
              /\ i = idx
              /\ ~Terminal(i)
              /\ i < idx'
              /\ Disposition(transactions[i]) = <<FALSE, None, None>>]_vars

\* the report is out, and the first transaction still carries the reviewer
\* approval it got before the second one was approved
C15_Witness ==
    /\ pc = "done"
    /\ Len(transactions) >= 2
    /\ Disposition(transactions[1]) = <<TRUE, Some(reviewer_name), Some(1)>>
    /\ transactions[2].approval_date = Some(2)

ReportInInputOrder ==
    report # None =>
        /\ \A i \in TxIndices : Terminal(i)
        /\ Len(report[1]) = Len(given)
        /\ \A i \in TxIndices : report[1][i].transaction_id = given[i].transaction_id

(* C16: with every prompt answered, every session eventually is terminal
   and the report is eventually produced; the report is produced only once
   every session is terminal and has one entry per input transaction, in
   input order. *)
C16_AllTerminalThenReport ==
    /\ <>(pc = "done" /\ report # None /\ \A i \in TxIndices : Terminal(i))
    /\ []ReportInInputOrder

\* TransactionModel would refuse this dict: its risk_level is not a RiskLevel
Malformed(transaction) ==
    /\ "risk_level" \in DOMAIN transaction
    /\ transaction.risk_level # None
    /\ transaction.risk_level[1] \notin RiskLevels

(* C17: a transaction whose given risk level is outside the four enumerated
   levels is never risk-assessed, never prompted for and never approved. *)
C17_MalformedNeverProcessed ==
    \A i \in TxIndices :
        Malformed(given[i]) =>
            /\ ~Assessed(i)
            /\ ~transactions[i].approved
            /\ promptsSent[i] = 0

(* C18: once main() has acted on the final response of a review, the
   transaction is approved by the reviewer identity exactly when the
   response text has "approved" somewhere in it, in any letter case;
   otherwise its disposition fields are as they were given. *)
C18_ApprovedIffTextHasApproved ==
    ReviewEnded =>
        LET text == ResponseText
            hit == \E i \in 1..(Len(text) - 7) :
                       \A k \in 1..8 :
                           CharAt(text, i + k - 1) \in
                               {CharAt("approved", k), CharAt("APPROVED", k)}
            t == transactions[handlerTx]
        IN IF hit
           THEN /\ t.approved
                /\ t.approved_by = Some(reviewer_name)
                /\ t.approval_date # None
           ELSE Disposition(t) = Disposition(given[handlerTx])

\* the LLM's own wording "NOT APPROVED." has approved the transaction
C18_Witness ==
    /\ ReviewEnded
    /\ response = Some("The transaction was NOT APPROVED.")
    /\ transactions[handlerTx].approved
    /\ transactions[handlerTx].approved_by = Some(reviewer_name)

(* C19: in every reachable state a transaction is approved if and only if
   both approved_by and approval_date are set, and approved_by is then the
   auto-approval identity or the configured reviewer identity. *)
C19_ApprovedIffApproverAndDate ==
    \A i \in TxIndices :
        /\ transactions[i].approved <=>
               (transactions[i].approved_by # None /\ transactions[i].approval_date # None)
        /\ transactions[i].approved =>
               transactions[i].approved_by \in {Some(AutoApprover), Some(reviewer_name)}
        /\ ~transactions[i].approved =>
               (transactions[i].approved_by = None /\ transactions[i].approval_date = None)

\* the report is out with one approval by each of the two identities
C19_Witness ==
    /\ pc = "done"
    /\ Len(transactions) >= 2
    /\ Disposition(transactions[1]) = <<TRUE, Some(AutoApprover), Some(1)>>
    /\ Disposition(transactions[2]) = <<TRUE, Some(reviewer_name), Some(2)>>

(* C20: the recorded verdict of an assessed transaction is high exactly
   when its given risk_level was high and low for every other given value
   (medium, critical, low, none); its factors are the given ones for high
   and empty otherwise, and the evaluation leaves the transaction's
   identity and disposition as given. *)
C20_VerdictHighIffGivenHigh ==
    \A i \in TxIndices :
        Assessed(i) =>
            /\ Verdict(i) \in {"low", "high"}
            /\ Verdict(i) = "high" <=> given[i].risk_level = Some("high")
            /\ transactions[i].risk_factors =
                   IF given[i].risk_level = Some("high")
                   THEN given[i].risk_factors ELSE <<>>
            /\ transactions[i].transaction_id = given[i].transaction_id
            /\ ~Terminal(i) => Disposition(transactions[i]) = Disposition(given[i])

\* a transaction given as critical has the verdict low and no factors
C20_Witness ==
    \E i \in TxIndices :
        /\ Assessed(i)
        /\ given[i].risk_level = Some("critical")
        /\ given[i].risk_factors # <<>>
        /\ Verdict(i) = "low"
        /\ transactions[i].risk_factors = <<>>

====
